---- MODULE Spec2Model ----
(***************************************************************************)
(* Model of pydantic_ai/_depends/utils.py: the callable classifiers,       *)
(* run_async, run_in_threadpool, solve_generator_async and                 *)
(* contextmanager_in_threadpool.                                           *)
(*                                                                         *)
(* Every invocation is one cooperative task.  Its position in the code is  *)
(* pc[i]; what ran, and on which execution context, is recorded in log[i]. *)
(***************************************************************************)
EXTENDS Integers, Sequences, FiniteSets, TLC

\* Number of invocations (cooperative tasks) that exist.
NInv == 1
\* Tokens of the default anyio thread limiter (general offload pool).
PoolCap == 1
\* anyio.CapacityLimiter(1): tokens of the exit limiter.
ExitCap == 1

Inv == 1 .. NInv

(***************************************************************************)
(* Values and exceptions                                                   *)
(***************************************************************************)
\* Return values of plain calls and handles yielded by resources.
Vals == {"42", "43"}
\* Exception subclasses raised by user code (callable, acquire step, protected region).
UserExc == {"ValueError", "ZeroDivisionError"}
\* Exception raised by an exit step on its own account.
ExitExc == {"KeyError"}
\* BaseException that is not an Exception: the cancellation signal.
CancelExc == {"CancelledError"}
\* Exceptions python, contextlib or this module raise themselves.
InternalExc == {"AssertionError", "TypeError", "AttributeError", "RuntimeError"}
\* isinstance(e, Exception)
OrdinaryExc == UserExc \cup ExitExc \cup InternalExc

None == [kind |-> "none", val |-> "none"]
Ret(v) == [kind |-> "ret", val |-> v]
Raise(e) == [kind |-> "exc", val |-> e]

(***************************************************************************)
(* Callables, by their static characteristics                              *)
(***************************************************************************)
\* What inspect sees of a function: plain def, async def, generator, async generator.
Kinds == {"plain", "coro", "gen", "asyncgen"}

\* isclass: inspect.isclass(call); fn: the kind of call itself when it is a
\* function; dcall: the kind of getattr(call, '__call__').  A class is no
\* function, and the __call__ of a function is a method-wrapper.
Callables ==
    {c \in [isclass : BOOLEAN, fn : Kinds, dcall : Kinds] :
        /\ c.isclass => c.fn = "plain"
        /\ c.fn # "plain" => c.dcall = "plain"}

\* What calling the callable produces: a class constructs an instance, a
\* function behaves as declared, an object forwards to its __call__.
CallKind(c) ==
    IF c.isclass THEN "plain"
    ELSE IF c.fn # "plain" THEN c.fn
    ELSE c.dcall

is_gen_callable(c) ==
    IF c.fn = "gen" THEN TRUE
    ELSE c.dcall = "gen"

is_async_gen_callable(c) ==
    IF c.fn = "asyncgen" THEN TRUE
    ELSE c.dcall = "asyncgen"

is_coroutine_callable(c) ==
    IF c.isclass THEN FALSE
    ELSE IF c.fn = "coro" THEN TRUE
    ELSE c.dcall = "coro"

(***************************************************************************)
(* State                                                                   *)
(***************************************************************************)
VARIABLES
    pc,        \* pc[i]: position of invocation i
    api,       \* api[i]: the entry point the caller used
    call,      \* call[i]: the callable of the invocation request
    path,      \* path[i]: the execution paths the callable was given to
    gen,       \* gen[i]: state of the generator behind cm
    thrown,    \* thrown[i]: exception the generator of contextmanager_in_threadpool caught
    regionOut, \* regionOut[i]: how the protected region ended
    wres,      \* wres[i]: outcome of the operation run on the worker
    result,    \* result[i]: what the caller of the entry point observes
    scopeRes,  \* scopeRes[i]: what the owner of the scope observes at scope exit
    log,       \* log[i]: sequence of <<step, context>> that ran
    job,       \* job[i]: what run_in_threadpool was given ("call" or "enter")
    poolBusy,  \* invocations holding a token of the default limiter
    exitLim,   \* exitLim[i]: borrowed tokens of the invocation's exit_limiter
    cancelled, \* cancelled[i]: the enclosing scope was cancelled with an offloaded call in flight
    args,      \* args[i]: positional arguments of the invocation request
    kwargs,    \* kwargs[i]: keyword arguments of the invocation request (their names)
    got,       \* got[i]: the arguments the underlying callable was called with
    rpc,       \* position of the signature resolution
    frames,    \* call stack of the caller of get_evaluated_signature, outermost first
    globalns,  \* __globals__ of the unwrapped callable
    declared,  \* the callable's annotation objects as declared, by slot
    annots,    \* the callable's annotation objects as they are now, by slot
    slocals,   \* the binding set collect_outer_stack_locals returned
    rsigs      \* the signatures get_evaluated_signature returned, in order

\* The state of the signature resolver.
resolverVars == <<rpc, frames, globalns, declared, annots, slocals, rsigs>>

\* The invocation request, fixed once made.
requestVars == <<args, kwargs>>

vars == <<pc, api, call, path, gen, thrown, regionOut, wres, result, scopeRes,
          log, job, poolBusy, exitLim, cancelled, args, kwargs, got, rpc, frames,
          globalns, declared, annots, slocals, rsigs>>

Apis == {"invoke", "run_async", "run_in_threadpool", "solve_generator_async"}

NoCall == [isclass |-> FALSE, fn |-> "plain", dcall |-> "plain"]

\* The callable has not been called.
NotCalled == [called |-> FALSE, a |-> <<>>, k |-> {}]
\* The callable was called as call(*a, **k).
Called(a, k) == [called |-> TRUE, a |-> a, k |-> k]

\* No signature is being resolved.
ResolverOff ==
    /\ rpc = "off"
    /\ frames = <<>>
    /\ globalns = <<>>
    /\ declared = <<>>
    /\ annots = <<>>
    /\ slocals = <<>>
    /\ rsigs = <<>>

\* The invocations, before their requests are made.
InvocationsIdle(T) ==
    /\ pc = [i \in T |-> "idle"]
    /\ api = [i \in T |-> "none"]
    /\ call = [i \in T |-> NoCall]
    /\ path = [i \in T |-> {}]
    /\ gen = [i \in T |-> "none"]
    /\ thrown = [i \in T |-> "none"]
    /\ regionOut = [i \in T |-> None]
    /\ wres = [i \in T |-> None]
    /\ result = [i \in T |-> None]
    /\ scopeRes = [i \in T |-> None]
    /\ log = [i \in T |-> <<>>]
    /\ job = [i \in T |-> "none"]
    /\ poolBusy = {}
    /\ exitLim = [i \in T |-> 0]
    /\ cancelled = [i \in T |-> FALSE]
    /\ got = [i \in T |-> NotCalled]

Init ==
    /\ InvocationsIdle(Inv)
    /\ args = [i \in Inv |-> <<>>]
    /\ kwargs = [i \in Inv |-> {}]
    /\ ResolverOff

(***************************************************************************)
(* Behaviour of user code                                                  *)
(***************************************************************************)
\* call(*args, **kwargs) as a plain call: a plain callable runs and returns or
\* raises; the other kinds only build their coroutine or generator object.
CallOutcomes(c) ==
    CASE CallKind(c) = "plain" -> {Ret(v) : v \in Vals} \cup {Raise(e) : e \in UserExc}
      [] CallKind(c) = "coro" -> {Ret("coroutine")}
      [] CallKind(c) = "gen" -> {Ret("generator")}
      [] OTHER -> {Ret("async_generator")}

\* await call(*args, **kwargs): the coroutine runs to its result; anything
\* that is not awaitable makes the await raise TypeError.
AwaitOutcomes(c) ==
    IF CallKind(c) = "coro"
    THEN {Ret(v) : v \in Vals} \cup {Raise(e) : e \in UserExc}
    ELSE {Raise("TypeError")}

\* The object contextmanager(call)(...) or asynccontextmanager(call)(...) holds
\* as its generator: a generator when call is one, else whatever call returned.
MadeGen(c, k) == IF CallKind(c) = k THEN "created" ELSE "notgen"

\* cm.__enter__() / cm.__aenter__(): next() on the generator runs it to its
\* yield (the handle) or to an exception; next() of a non-generator is a TypeError.
EnterOutcomes(g) ==
    IF g = "created"
    THEN {Ret(v) : v \in Vals} \cup {Raise(e) : e \in UserExc}
    ELSE {Raise("TypeError")}

\* cm.__exit__(typ, value, tb) of contextlib's generator context manager.
\*   suspended, no exception: the generator finishes (False) or raises.
\*   suspended, exception thrown in: it re-raises it (False), swallows it
\*   (True) or raises another.
\*   finished (the acquire step raised): throw() raises value back, so False.
\*   not a generator: it has no throw(), AttributeError.
ExitOutcomes(g, t) ==
    CASE g = "suspended" /\ t = "none" -> {Ret("False")} \cup {Raise(e) : e \in ExitExc}
      [] g = "suspended" /\ t # "none" ->
            {Ret("False"), Ret("True")} \cup {Raise(e) : e \in ExitExc}
      [] g = "notgen" -> {Raise("AttributeError")}
      [] OTHER -> {Ret("False")}

\* The release part of an asynchronous generator, resumed with outcome ro of
\* the protected region: it finishes, re-raises what was thrown in, or raises.
AsyncExitOutcomes(ro) ==
    IF ro.kind = "exc"
    THEN {ro, Ret("None")} \cup {Raise(e) : e \in ExitExc}
    ELSE {Ret("None")} \cup {Raise(e) : e \in ExitExc}

\* bool(x)
Bool(v) == v \in {"True"}

(***************************************************************************)
(* Entry points                                                            *)
(***************************************************************************)
\* A caller issues an invocation request through one of the entry points.
Start(i) ==
    /\ pc[i] = "idle"
    /\ \E a \in Apis, c \in Callables :
          /\ api' = [api EXCEPT ![i] = a]
          /\ call' = [call EXCEPT ![i] = c]
          /\ pc' = [pc EXCEPT ![i] = a]
    /\ UNCHANGED <<path, gen, thrown, regionOut, wres, result, scopeRes, log, job,
                   poolBusy, exitLim,
                   cancelled, requestVars, got, resolverVars>>

\* The Unified Invoker: generator shapes go to the Resource Lifecycle Adapter,
\* the others to run_async.
Invoke(i) ==
    /\ pc[i] = "invoke"
    /\ pc' = [pc EXCEPT ![i] =
                IF is_gen_callable(call[i]) \/ is_async_gen_callable(call[i])
                THEN "solve_generator_async"
                ELSE "run_async"]
    /\ UNCHANGED <<api, call, path, gen, thrown, regionOut, wres, result, scopeRes,
                   log, job, poolBusy, exitLim,
                   cancelled, requestVars, got, resolverVars>>

\* run_async: a coroutine callable is awaited where it is, anything else goes
\* to run_in_threadpool.
RunAsync(i) ==
    /\ pc[i] = "run_async"
    /\ IF is_coroutine_callable(call[i])
       THEN /\ path' = [path EXCEPT ![i] = @ \cup {"direct"}]
            /\ log' = [log EXCEPT ![i] = Append(@, <<"call", "coop">>)]
            /\ got' = [got EXCEPT ![i] = Called(args[i], kwargs[i])]
            /\ \E o \in AwaitOutcomes(call[i]) : result' = [result EXCEPT ![i] = o]
            /\ pc' = [pc EXCEPT ![i] = "done"]
       ELSE /\ pc' = [pc EXCEPT ![i] = "run_in_threadpool"]
            /\ UNCHANGED <<path, log, result, got>>
    /\ UNCHANGED <<api, call, gen, thrown, regionOut, wres, scopeRes, job, poolBusy,
                   exitLim, cancelled, requestVars, resolverVars>>

\* run_in_threadpool(func, *args, **kwargs): func is submitted to a worker.
RunInThreadpool(i) ==
    /\ pc[i] = "run_in_threadpool"
    /\ path' = [path EXCEPT ![i] = @ \cup {"threadpool"}]
    /\ job' = [job EXCEPT ![i] = "call"]
    /\ pc' = [pc EXCEPT ![i] = "tp_wait"]
    /\ UNCHANGED <<api, call, gen, thrown, regionOut, wres, result, scopeRes, log,
                   poolBusy, exitLim,
                   cancelled, requestVars, got, resolverVars>>

\* anyio.to_thread.run_sync: the submission waits for a token of the default limiter.
TpAcquire(i) ==
    /\ pc[i] = "tp_wait"
    /\ Cardinality(poolBusy) < PoolCap
    /\ poolBusy' = poolBusy \cup {i}
    /\ pc' = [pc EXCEPT ![i] = "tp_run"]
    /\ UNCHANGED <<api, call, path, gen, thrown, regionOut, wres, result, scopeRes,
                   log, job, exitLim,
                   cancelled, requestVars, got, resolverVars>>

(***************************************************************************)
(* Worker Offload Bridge                                                   *)
(***************************************************************************)
\* The context anyio.to_thread.run_sync runs its function on.
to_thread_context == "worker"

\* The worker runs what run_in_threadpool was given, func or cm.__enter__, and
\* gives back the token of the default limiter.
TpRun(i) ==
    /\ pc[i] = "tp_run"
    /\ IF job[i] = "call"
       THEN /\ \E o \in CallOutcomes(call[i]) : wres' = [wres EXCEPT ![i] = o]
            /\ log' = [log EXCEPT ![i] = Append(@, <<"call", to_thread_context>>)]
            /\ got' = [got EXCEPT ![i] = Called(args[i], kwargs[i])]
            /\ UNCHANGED gen
       ELSE /\ \E o \in EnterOutcomes(gen[i]) :
                  /\ wres' = [wres EXCEPT ![i] = o]
                  /\ gen' = [gen EXCEPT ![i] =
                               IF @ = "notgen" THEN @
                               ELSE IF o.kind = "ret" THEN "suspended" ELSE "finished"]
            /\ log' = [log EXCEPT ![i] = Append(@, <<"enter", to_thread_context>>)]
            /\ UNCHANGED got
    /\ poolBusy' = poolBusy \ {i}
    /\ pc' = [pc EXCEPT ![i] = "tp_resume"]
    /\ UNCHANGED <<api, call, path, thrown, regionOut, result, scopeRes, job, exitLim,
                   cancelled, requestVars, resolverVars>>

run_sync_result_wrapped(w) ==
    IF w.kind = "exc" THEN Raise("RuntimeError") ELSE w

\* return await anyio.to_thread.run_sync(func, *args): the awaiting task gets
\* the value func returned, or the exception func raised is raised in it.
run_sync_result(w) == w

TryOutcome_noelse(o) ==
    IF o.kind = "exc" /\ o.val \in OrdinaryExc
    THEN [step |-> "exit", thrown |-> o.val]
    ELSE [step |-> "leave", thrown |-> "none"]

\* The try statement of contextmanager_in_threadpool, whose body (the acquire
\* step, then the protected region behind the yield) ended with outcome o:
\* `except Exception as e` and `else` both go on to the exit step, anything
\* else leaves the generator with no handler run.
TryOutcome(o) ==
    IF o.kind = "exc" /\ o.val \in OrdinaryExc
    THEN [step |-> "exit", thrown |-> o.val]
    ELSE IF o.kind = "exc"
    THEN [step |-> "leave", thrown |-> "none"]
    ELSE [step |-> "exit", thrown |-> "none"]

TpResume_retry(i) ==
    /\ pc[i] = "tp_resume"
    /\ job[i] = "call"
    /\ IF wres[i].kind = "exc"
       THEN /\ pc' = [pc EXCEPT ![i] = "tp_wait"]
            /\ UNCHANGED result
       ELSE /\ result' = [result EXCEPT ![i] = run_sync_result(wres[i])]
            /\ pc' = [pc EXCEPT ![i] = "done"]
    /\ UNCHANGED <<api, call, path, gen, thrown, regionOut, wres, scopeRes, log, job,
                   poolBusy, exitLim,
                   cancelled, requestVars, got, resolverVars>>

\* The task that awaited run_in_threadpool(func, ...) goes on: what the await
\* gave is what the invocation gives its caller.
TpResume(i) ==
    /\ pc[i] = "tp_resume"
    /\ job[i] = "call"
    /\ result' = [result EXCEPT ![i] = run_sync_result(wres[i])]
    /\ pc' = [pc EXCEPT ![i] = "done"]
    /\ UNCHANGED <<api, call, path, gen, thrown, regionOut, wres, scopeRes, log, job,
                   poolBusy, exitLim,
                   cancelled, requestVars, got, resolverVars>>

(***************************************************************************)
(* Resource Lifecycle Adapter                                              *)
(***************************************************************************)
SolveGeneratorAsync_noassert(i) ==
    /\ pc[i] = "solve_generator_async"
    /\ IF is_gen_callable(call[i])
       THEN /\ path' = [path EXCEPT ![i] = @ \cup {"adapter_blocking"}]
            /\ gen' = [gen EXCEPT ![i] = MadeGen(call[i], "gen")]
            /\ got' = [got EXCEPT ![i] = Called(<<>>, kwargs[i])]
            /\ pc' = [pc EXCEPT ![i] = "cm_aenter"]
       ELSE /\ path' = [path EXCEPT ![i] = @ \cup {"adapter_async"}]
            /\ gen' = [gen EXCEPT ![i] = MadeGen(call[i], "asyncgen")]
            /\ got' = [got EXCEPT ![i] = Called(args[i], kwargs[i])]
            /\ pc' = [pc EXCEPT ![i] = "acm_aenter"]
    /\ log' = [log EXCEPT ![i] = Append(@, <<"call", "coop">>)]
    /\ UNCHANGED <<api, call, thrown, regionOut, wres, result, scopeRes, job, poolBusy,
                   exitLim, cancelled, requestVars, resolverVars>>

\* solve_generator_async: builds the context manager (calling call once) and
\* enters it on the stack; a callable of neither generator kind is refused.
SolveGeneratorAsync(i) ==
    /\ pc[i] = "solve_generator_async"
    /\ IF is_gen_callable(call[i])
       THEN /\ path' = [path EXCEPT ![i] = @ \cup {"adapter_blocking"}]
            /\ log' = [log EXCEPT ![i] = Append(@, <<"call", "coop">>)]
            /\ gen' = [gen EXCEPT ![i] = MadeGen(call[i], "gen")]
            /\ got' = [got EXCEPT ![i] = Called(<<>>, kwargs[i])]
            /\ pc' = [pc EXCEPT ![i] = "cm_aenter"]
            /\ UNCHANGED result
       ELSE IF is_async_gen_callable(call[i])
       THEN /\ path' = [path EXCEPT ![i] = @ \cup {"adapter_async"}]
            /\ log' = [log EXCEPT ![i] = Append(@, <<"call", "coop">>)]
            /\ gen' = [gen EXCEPT ![i] = MadeGen(call[i], "asyncgen")]
            /\ got' = [got EXCEPT ![i] = Called(args[i], kwargs[i])]
            /\ pc' = [pc EXCEPT ![i] = "acm_aenter"]
            /\ UNCHANGED result
       ELSE /\ result' = [result EXCEPT ![i] = Raise("AssertionError")]
            /\ pc' = [pc EXCEPT ![i] = "done"]
            /\ UNCHANGED <<path, log, gen, got>>
    /\ UNCHANGED <<api, call, thrown, regionOut, wres, scopeRes, job, poolBusy, exitLim,
                   cancelled, requestVars, resolverVars>>

\* contextmanager_in_threadpool up to its first await: a fresh exit_limiter,
\* then run_in_threadpool(cm.__enter__).
CmEnter(i) ==
    /\ pc[i] = "cm_aenter"
    /\ exitLim' = [exitLim EXCEPT ![i] = 0]
    /\ job' = [job EXCEPT ![i] = "enter"]
    /\ pc' = [pc EXCEPT ![i] = "tp_wait"]
    /\ UNCHANGED <<api, call, path, gen, thrown, regionOut, wres, result, scopeRes,
                   log, poolBusy,
                   cancelled, requestVars, got, resolverVars>>

\* `yield await run_in_threadpool(cm.__enter__)` goes on inside the try
\* statement: the handle is yielded to the caller (__aenter__ returns it and
\* the protected region begins), or the try statement deals with the
\* exception of the acquire step.
CmYield(i) ==
    /\ pc[i] = "tp_resume"
    /\ job[i] = "enter"
    /\ LET w == run_sync_result(wres[i])
           t == TryOutcome(w)
       IN  IF w.kind = "ret"
           THEN /\ result' = [result EXCEPT ![i] = w]
                /\ log' = [log EXCEPT ![i] = Append(@, <<"yield", "coop">>)]
                /\ pc' = [pc EXCEPT ![i] = "region"]
                /\ UNCHANGED thrown
           ELSE IF t.step = "exit"
           THEN /\ thrown' = [thrown EXCEPT ![i] = t.thrown]
                /\ pc' = [pc EXCEPT ![i] = "ex_wait"]
                /\ UNCHANGED <<result, log>>
           ELSE /\ result' = [result EXCEPT ![i] = w]
                /\ pc' = [pc EXCEPT ![i] = "done"]
                /\ UNCHANGED <<thrown, log>>
    /\ UNCHANGED <<api, call, path, gen, regionOut, wres, scopeRes, job, poolBusy,
                   exitLim,
                   cancelled, requestVars, got, resolverVars>>

\* The caller's protected region ends: normally, with an exception, or
\* cancelled.
Region(i) ==
    /\ pc[i] = "region"
    /\ \E o \in {Ret("None")} \cup {Raise(e) : e \in UserExc \cup CancelExc} :
          regionOut' = [regionOut EXCEPT ![i] = o]
    /\ log' = [log EXCEPT ![i] = Append(@, <<"region", "coop">>)]
    /\ pc' = [pc EXCEPT ![i] = "scope_exit"]
    /\ UNCHANGED <<api, call, path, gen, thrown, wres, result, scopeRes, job, poolBusy,
                   exitLim,
                   cancelled, requestVars, got, resolverVars>>

\* The scope exits: the stack calls cm.__aexit__ with the region's outcome,
\* which resumes the generator at its yield (anext or athrow).
ScopeExit(i) ==
    /\ pc[i] = "scope_exit"
    /\ LET t == TryOutcome(regionOut[i])
       IN  IF "adapter_async" \in path[i]
           THEN /\ pc' = [pc EXCEPT ![i] = "acm_aexit"]
                /\ UNCHANGED <<thrown, scopeRes>>
           ELSE IF t.step = "exit"
           THEN /\ thrown' = [thrown EXCEPT ![i] = t.thrown]
                /\ pc' = [pc EXCEPT ![i] = "ex_wait"]
                /\ UNCHANGED scopeRes
           ELSE /\ scopeRes' = [scopeRes EXCEPT ![i] = regionOut[i]]
                /\ pc' = [pc EXCEPT ![i] = "done"]
                /\ UNCHANGED thrown
    /\ UNCHANGED <<api, call, path, gen, regionOut, wres, result, log, job, poolBusy,
                   exitLim,
                   cancelled, requestVars, got, resolverVars>>

ExAcquire_sharedpool(i) ==
    /\ pc[i] = "ex_wait"
    /\ exitLim[i] < ExitCap
    /\ Cardinality(poolBusy) < PoolCap
    /\ exitLim' = [exitLim EXCEPT ![i] = @ + 1]
    /\ pc' = [pc EXCEPT ![i] = "ex_run"]
    /\ UNCHANGED <<api, call, path, gen, thrown, regionOut, wres, result, scopeRes,
                   log, job, poolBusy,
                   cancelled, requestVars, got, resolverVars>>

\* anyio.to_thread.run_sync(cm.__exit__, ..., limiter=exit_limiter): the
\* submission waits for the token of this invocation's exit_limiter.
ExAcquire(i) ==
    /\ pc[i] = "ex_wait"
    /\ exitLim[i] < ExitCap
    /\ exitLim' = [exitLim EXCEPT ![i] = @ + 1]
    /\ pc' = [pc EXCEPT ![i] = "ex_run"]
    /\ UNCHANGED <<api, call, path, gen, thrown, regionOut, wres, result, scopeRes,
                   log, job, poolBusy,
                   cancelled, requestVars, got, resolverVars>>

exit_step_context_direct == "coop"

\* The context cm.__exit__ runs on: it is given to anyio.to_thread.run_sync.
exit_step_context == to_thread_context

\* The worker runs cm.__exit__(type(e), e, None) or cm.__exit__(None, None, None).
ExRun(i) ==
    /\ pc[i] = "ex_run"
    /\ \E o \in ExitOutcomes(gen[i], thrown[i]) : wres' = [wres EXCEPT ![i] = o]
    /\ log' = [log EXCEPT ![i] = Append(@, <<"exit", exit_step_context>>)]
    /\ gen' = [gen EXCEPT ![i] = IF @ = "notgen" THEN @ ELSE "finished"]
    /\ exitLim' = [exitLim EXCEPT ![i] = @ - 1]
    /\ pc' = [pc EXCEPT ![i] = "ex_resume"]
    /\ UNCHANGED <<api, call, path, thrown, regionOut, result, scopeRes, job, poolBusy,
                   cancelled, requestVars, got, resolverVars>>

AfterExit_noraise(t, w) ==
    IF w.kind = "exc" THEN w ELSE Ret("None")

AfterExit_alwaysraise(t, w) ==
    IF w.kind = "exc" THEN w
    ELSE IF t # "none" THEN Raise(t)
    ELSE Ret("None")

AfterExit_swallow(t, w) ==
    IF t # "none" /\ ~ (w.kind = "ret" /\ Bool(w.val)) THEN Raise(t)
    ELSE Ret("None")

\* How the generator of contextmanager_in_threadpool ends once the exit step
\* gave w, t being the exception its except clause caught ("none" in the else
\* clause): an exception of the exit step leaves as it is; in the except
\* clause ok = bool(result) and `if not ok: raise e`; else the generator returns.
AfterExit(t, w) ==
    IF w.kind = "exc" THEN w
    ELSE IF t # "none" /\ ~ Bool(w.val) THEN Raise(t)
    ELSE Ret("None")

\* The generator goes on after the exit step.  asynccontextmanager turns its
\* end into the result of __aexit__ (the scope re-raises or exits normally),
\* or, when the generator never yielded, into the failure of __aenter__.
ExResume(i) ==
    /\ pc[i] = "ex_resume"
    /\ LET a == AfterExit(thrown[i], wres[i])
       IN  IF result[i].kind = "ret"
           THEN /\ scopeRes' = [scopeRes EXCEPT ![i] = a]
                /\ UNCHANGED result
           ELSE /\ result' = [result EXCEPT ![i] =
                                IF a.kind = "exc" THEN a ELSE Raise("RuntimeError")]
                /\ UNCHANGED scopeRes
    /\ pc' = [pc EXCEPT ![i] = "done"]
    /\ UNCHANGED <<api, call, path, gen, thrown, regionOut, wres, log, job, poolBusy,
                   exitLim,
                   cancelled, requestVars, got, resolverVars>>

\* asynccontextmanager(call)(...).__aenter__: the acquire part of the
\* asynchronous generator runs in the calling task.
AcmEnter(i) ==
    /\ pc[i] = "acm_aenter"
    /\ log' = [log EXCEPT ![i] = Append(@, <<"enter", "coop">>)]
    /\ \E o \in EnterOutcomes(gen[i]) :
          /\ result' = [result EXCEPT ![i] = o]
          /\ gen' = [gen EXCEPT ![i] =
                       IF @ = "notgen" THEN @
                       ELSE IF o.kind = "ret" THEN "suspended" ELSE "finished"]
          /\ pc' = [pc EXCEPT ![i] = IF o.kind = "ret" THEN "region" ELSE "done"]
    /\ UNCHANGED <<api, call, path, thrown, regionOut, wres, scopeRes, job, poolBusy,
                   exitLim,
                   cancelled, requestVars, got, resolverVars>>

\* asynccontextmanager(call)(...).__aexit__: the release part of the
\* asynchronous generator runs in the task that exits the scope.
AcmExit(i) ==
    /\ pc[i] = "acm_aexit"
    /\ log' = [log EXCEPT ![i] = Append(@, <<"exit", "coop">>)]
    /\ \E o \in AsyncExitOutcomes(regionOut[i]) :
          scopeRes' = [scopeRes EXCEPT ![i] = o]
    /\ gen' = [gen EXCEPT ![i] = "finished"]
    /\ pc' = [pc EXCEPT ![i] = "done"]
    /\ UNCHANGED <<api, call, path, thrown, regionOut, wres, result, job, poolBusy,
                   exitLim,
                   cancelled, requestVars, got, resolverVars>>

(***************************************************************************)
(* Specification                                                           *)
(***************************************************************************)
Next ==
    \E i \in Inv :
        \/ Start(i)
        \/ Invoke(i)
        \/ RunAsync(i)
        \/ RunInThreadpool(i)
        \/ TpAcquire(i)
        \/ TpRun(i)
        \/ TpResume(i)
        \/ SolveGeneratorAsync(i)
        \/ CmEnter(i)
        \/ CmYield(i)
        \/ Region(i)
        \/ ScopeExit(i)
        \/ ExAcquire(i)
        \/ ExRun(i)
        \/ ExResume(i)
        \/ AcmEnter(i)
        \/ AcmExit(i)

Spec == Init /\ [][Next]_vars

(***************************************************************************)
(* Reading the record of an invocation                                     *)
(***************************************************************************)
\* How many times step ev ran in log lg.
Count(lg, ev) == Cardinality({k \in DOMAIN lg : lg[k][1] = ev})

\* Invocation i opened a blocking-generator resource through
\* contextmanager_in_threadpool.
Blocking(i) == "adapter_blocking" \in path[i]

\* The acquire step of i returned and its handle was yielded to the caller.
Acquired(i) == Count(log[i], "yield") = 1

\* The acquire step of i ran and raised.
EnterFailed(i) ==
    /\ Blocking(i)
    /\ Count(log[i], "enter") = 1
    /\ pc[i] # "tp_resume"
    /\ ~ Acquired(i)

\* The exit step of i ran and returned a value / raised.
ExitReturned(i) == Count(log[i], "exit") = 1 /\ pc[i] = "done" /\ wres[i].kind = "ret"
ExitRaised(i) == Count(log[i], "exit") = 1 /\ pc[i] = "done" /\ wres[i].kind = "exc"

(***************************************************************************)
(* C1: after a successful acquire step of a blocking-generator resource,   *)
(* when the scope has exited because the protected region completed        *)
(* normally or raised an ordinary exception, cm.__exit__ has been called   *)
(* exactly once; it is never called twice, also when it raises.            *)
(***************************************************************************)
C1_ExitExactlyOnce ==
    \A i \in Inv :
        (Blocking(i) /\ Acquired(i)) =>
            /\ Count(log[i], "exit") <= 1
            /\ ( /\ pc[i] = "done"
                 /\ (regionOut[i].kind = "ret" \/ regionOut[i].val \in OrdinaryExc) )
               => Count(log[i], "exit") = 1

C1_Witness ==
    \E i \in Inv :
        /\ Blocking(i) /\ Acquired(i) /\ pc[i] = "done"
        /\ regionOut[i] = Raise("ValueError")
        /\ ExitRaised(i)
        /\ Count(log[i], "exit") = 1

(***************************************************************************)
(* C2: when the protected region of a blocking-generator resource is ended *)
(* by the cancellation signal after a successful acquire step, cm.__exit__ *)
(* has run exactly once by the time the scope is left.                     *)
(***************************************************************************)
C2_ExitOnCancel ==
    \A i \in Inv :
        ( /\ Blocking(i) /\ Acquired(i) /\ pc[i] = "done"
          /\ regionOut[i].kind = "exc" /\ regionOut[i].val \in CancelExc )
        => Count(log[i], "exit") = 1

(***************************************************************************)
(* C3: when the acquire step of a blocking-generator resource raises, the  *)
(* exception propagates to the caller and cm.__exit__ is never called.     *)
(***************************************************************************)
C3_NoExitAfterFailedEnter ==
    \A i \in Inv :
        EnterFailed(i) =>
            /\ Count(log[i], "exit") = 0
            /\ pc[i] = "done" => result[i].kind = "exc"

(***************************************************************************)
(* C4: when the protected region raised and the exit step returned a falsy *)
(* result, the owner of the scope observes the region's own exception, and *)
(* observes nothing while the exit step is pending or running.             *)
(***************************************************************************)
C4_ReraiseAfterExit ==
    \A i \in Inv :
        (Blocking(i) /\ Acquired(i) /\ regionOut[i].kind = "exc") =>
            /\ pc[i] \in {"ex_wait", "ex_run", "ex_resume"} => scopeRes[i] = None
            /\ (ExitReturned(i) /\ ~ Bool(wres[i].val)) => scopeRes[i] = regionOut[i]

C4_Witness ==
    \E i \in Inv :
        /\ Blocking(i) /\ Acquired(i)
        /\ regionOut[i] = Raise("ZeroDivisionError")
        /\ ExitReturned(i) /\ wres[i] = Ret("False")
        /\ scopeRes[i] = Raise("ZeroDivisionError")

(***************************************************************************)
(* C5: when the protected region raised and the exit step returned a       *)
(* truthy result, the scope exits as after a normal completion and the     *)
(* exit step has run once, not twice.                                      *)
(***************************************************************************)
C5_HandledDoesNotPropagate ==
    \A i \in Inv :
        ( /\ Blocking(i) /\ Acquired(i) /\ regionOut[i].kind = "exc"
          /\ ExitReturned(i) /\ Bool(wres[i].val) )
        => /\ scopeRes[i] = Ret("None")
           /\ Count(log[i], "exit") = 1

C5_Witness ==
    \E i \in Inv :
        /\ Blocking(i) /\ Acquired(i)
        /\ regionOut[i] = Raise("ValueError")
        /\ ExitReturned(i) /\ wres[i] = Ret("True")
        /\ scopeRes[i] = Ret("None")

(***************************************************************************)
(* C6: when the exit step raises an exception of its own, the caller       *)
(* observes that exception: in place of the region's exception, or after a *)
(* region that completed normally with the handle already returned.        *)
(***************************************************************************)
C6_ExitExceptionSupersedes ==
    \A i \in Inv :
        (Blocking(i) /\ ExitRaised(i)) =>
            IF Acquired(i) THEN scopeRes[i] = wres[i] ELSE result[i] = wres[i]

C6_Witness ==
    \E i \in Inv :
        /\ Blocking(i) /\ Acquired(i) /\ ExitRaised(i)
        /\ result[i] = Ret("42")
        /\ regionOut[i] = Ret("None")
        /\ scopeRes[i] = Raise("KeyError")

(***************************************************************************)
(* C7: the release step runs on the same kind of context as the acquire    *)
(* step: both on a worker for a blocking-generator resource, both on the   *)
(* cooperative context for an asynchronous-generator resource.             *)
(***************************************************************************)
C7_SameContextKind ==
    \A i \in Inv :
        \A k \in DOMAIN log[i] :
            log[i][k][1] \in {"enter", "exit"} =>
                log[i][k][2] = (IF Blocking(i) THEN "worker" ELSE "coop")

C7_Witness ==
    \E i \in Inv :
        /\ Blocking(i) /\ pc[i] = "done"
        /\ Count(log[i], "enter") = 1
        /\ Count(log[i], "exit") = 1
        /\ regionOut[i] = Ret("None")
        /\ scopeRes[i] = Ret("None")

\* The execution path the dispatch table names for the shape of callable c.
TablePath(c) ==
    CASE CallKind(c) = "plain" -> "threadpool"
      [] CallKind(c) = "coro" -> "direct"
      [] CallKind(c) = "gen" -> "adapter_blocking"
      [] OTHER -> "adapter_async"

(***************************************************************************)
(* C8: invoke gives the callable to exactly one execution path, the one    *)
(* the dispatch table names for its shape: Blocking to run_in_threadpool,  *)
(* Asynchronous awaited in the calling task, the generator shapes to the   *)
(* Resource Lifecycle Adapter.                                             *)
(***************************************************************************)
C8_DispatchTable ==
    \A i \in Inv :
        (api[i] = "invoke" /\ pc[i] \notin {"idle", "invoke", "run_async",
                                             "run_in_threadpool", "solve_generator_async"})
        => path[i] = {TablePath(call[i])}

C10_OffloadResultUnchanged ==
    \A i \in Inv :
        (job[i] = "call" /\ pc[i] = "done") => result[i] = wres[i]

C10_Witness ==
    \E i \in Inv :
        /\ job[i] = "call" /\ pc[i] = "done"
        /\ wres[i] = Raise("ZeroDivisionError")
        /\ result[i] = Raise("ZeroDivisionError")

MaxArgs == 2
\* Values of positional arguments.
ArgVals == {"x", "y"}
\* Names of keyword arguments.
KwNames == {"k1", "k2"}

\* The positional argument lists: every sequence of at most MaxArgs values.
ArgSeqs == UNION {[1 .. n -> ArgVals] : n \in 0 .. MaxArgs}

\* As Init, with every request carrying some positional and keyword arguments.
InitArgs ==
    /\ InvocationsIdle(Inv)
    /\ args \in [Inv -> ArgSeqs]
    /\ kwargs \in [Inv -> SUBSET KwNames]
    /\ ResolverOff

SpecArgs == InitArgs /\ [][Next]_vars

(***************************************************************************)
(* C18: the underlying callable is called with exactly the positional      *)
(* arguments, in order, and the keyword arguments of the invocation        *)
(* request, on every path.                                                 *)
(***************************************************************************)
C18_ArgumentsForwarded ==
    \A i \in Inv :
        got[i].called => (got[i].a = args[i] /\ got[i].k = kwargs[i])

(***************************************************************************)
(* Cancellation of the enclosing scope                                     *)
(***************************************************************************)
\* The enclosing scope is cancelled while the offloaded operation of i is in
\* flight.  run_in_threadpool calls anyio.to_thread.run_sync without
\* abandon_on_cancel, so the await ignores the cancellation until the worker
\* has finished: the task stays where it is and only the request is noted.
Cancel(i) ==
    /\ pc[i] = "tp_run"
    /\ ~ cancelled[i]
    /\ cancelled' = [cancelled EXCEPT ![i] = TRUE]
    /\ UNCHANGED <<pc, api, call, path, gen, thrown, regionOut, wres, result, scopeRes,
                   log, job, poolBusy, exitLim, requestVars, got, resolverVars>>

NextCancel ==
    \/ Next
    \/ \E i \in Inv : Cancel(i)

SpecCancel == Init /\ [][NextCancel]_vars

(***************************************************************************)
(* C13: when the enclosing scope is cancelled while a call offloaded by    *)
(* run_in_threadpool is in flight, the worker operation still runs to      *)
(* completion, and the caller ends cancelled, without the result of the    *)
(* operation.                                                              *)
(***************************************************************************)
C13_CancelledCallerGetsNoResult ==
    \A i \in Inv :
        (cancelled[i] /\ job[i] = "call" /\ pc[i] = "done") =>
            /\ Count(log[i], "call") = 1
            /\ result[i] = Raise("CancelledError")

(***************************************************************************)
(* Concurrent invocations                                                  *)
(***************************************************************************)
\* Number of tasks that make invocations at the same time.
NTasks == 2

Tasks == 1 .. NTasks

\* A def function.
PlainFunction == [isclass |-> FALSE, fn |-> "plain", dcall |-> "plain"]
\* A def function with a yield.
GeneratorFunction == [isclass |-> FALSE, fn |-> "gen", dcall |-> "plain"]

\* What the concurrent tasks ask for: a blocking call through
\* run_in_threadpool, or a blocking-generator resource through
\* solve_generator_async or solve_generator_sync.
ConcRequests ==
    {<<"run_in_threadpool", PlainFunction>>,
     <<"solve_generator_async", GeneratorFunction>>,
     <<"solve_generator_sync", GeneratorFunction>>}

InitConc ==
    /\ InvocationsIdle(Tasks)
    /\ args = [i \in Tasks |-> <<>>]
    /\ kwargs = [i \in Tasks |-> {}]
    /\ ResolverOff

StartConc(i) ==
    /\ pc[i] = "idle"
    /\ \E r \in ConcRequests :
          /\ api' = [api EXCEPT ![i] = r[1]]
          /\ call' = [call EXCEPT ![i] = r[2]]
          /\ pc' = [pc EXCEPT ![i] = r[1]]
    /\ UNCHANGED <<path, gen, thrown, regionOut, wres, result, scopeRes, log, job,
                   poolBusy, exitLim, cancelled, requestVars, got, resolverVars>>

\* The context of the caller of a synchronous entry point.
caller_context == "caller"

\* solve_generator_sync: contextmanager(call)(*sub_args, **sub_values) calls
\* call once, and stack.enter_context(cm) runs cm.__enter__ in the caller and
\* registers cm.__exit__ when it returned the handle; it has no await, so the
\* whole of it is one step.
SolveGeneratorSync(i) ==
    /\ pc[i] = "solve_generator_sync"
    /\ path' = [path EXCEPT ![i] = @ \cup {"sync"}]
    /\ got' = [got EXCEPT ![i] = Called(args[i], kwargs[i])]
    /\ \E o \in EnterOutcomes(MadeGen(call[i], "gen")) :
          /\ result' = [result EXCEPT ![i] = o]
          /\ IF o.kind = "ret"
             THEN /\ log' = [log EXCEPT ![i] =
                               @ \o <<<<"call", caller_context>>,
                                      <<"enter", caller_context>>,
                                      <<"yield", caller_context>>>>]
                  /\ gen' = [gen EXCEPT ![i] = "suspended"]
                  /\ pc' = [pc EXCEPT ![i] = "sync_region"]
             ELSE /\ log' = [log EXCEPT ![i] =
                               @ \o <<<<"call", caller_context>>,
                                      <<"enter", caller_context>>>>]
                  /\ gen' = [gen EXCEPT ![i] =
                               IF MadeGen(call[i], "gen") = "notgen"
                               THEN "notgen" ELSE "finished"]
                  /\ pc' = [pc EXCEPT ![i] = "done"]
    /\ UNCHANGED <<api, call, thrown, regionOut, wres, scopeRes, job, poolBusy,
                   exitLim, cancelled, requestVars, resolverVars>>

\* The protected region of a resource entered on a synchronous stack ends.
SyncRegion(i) ==
    /\ pc[i] = "sync_region"
    /\ \E o \in {Ret("None")} \cup {Raise(e) : e \in UserExc \cup CancelExc} :
          regionOut' = [regionOut EXCEPT ![i] = o]
    /\ log' = [log EXCEPT ![i] = Append(@, <<"region", caller_context>>)]
    /\ pc' = [pc EXCEPT ![i] = "sync_exit"]
    /\ UNCHANGED <<api, call, path, gen, thrown, wres, result, scopeRes, job, poolBusy,
                   exitLim, cancelled, requestVars, got, resolverVars>>

\* ExitStack.__exit__ once the registered cm.__exit__ gave w, t being the
\* exception that left the region ("none" without one): an exception of
\* cm.__exit__ leaves as it is, a true result suppresses t, else t goes on.
ExitStackOutcome(t, w) ==
    IF w.kind = "exc" THEN w
    ELSE IF t # "none" /\ ~ Bool(w.val) THEN Raise(t)
    ELSE Ret("None")

\* The synchronous stack closes: it calls cm.__exit__ in the caller, with the
\* exception of the region whatever its class.
SyncExit(i) ==
    /\ pc[i] = "sync_exit"
    /\ LET t == IF regionOut[i].kind = "exc" THEN regionOut[i].val ELSE "none"
       IN  /\ thrown' = [thrown EXCEPT ![i] = t]
           /\ \E o \in ExitOutcomes(gen[i], t) :
                 scopeRes' = [scopeRes EXCEPT ![i] = ExitStackOutcome(t, o)]
    /\ log' = [log EXCEPT ![i] = Append(@, <<"exit", caller_context>>)]
    /\ gen' = [gen EXCEPT ![i] = "finished"]
    /\ pc' = [pc EXCEPT ![i] = "done"]
    /\ UNCHANGED <<api, call, path, regionOut, wres, result, job, poolBusy,
                   exitLim, cancelled, requestVars, got, resolverVars>>

NextConc ==
    \E i \in Tasks :
        \/ StartConc(i)
        \/ RunInThreadpool(i)
        \/ TpAcquire(i)
        \/ TpRun(i)
        \/ TpResume(i)
        \/ SolveGeneratorAsync(i)
        \/ CmEnter(i)
        \/ CmYield(i)
        \/ Region(i)
        \/ ScopeExit(i)
        \/ ExAcquire(i)
        \/ ExRun(i)
        \/ ExResume(i)
        \/ SolveGeneratorSync(i)
        \/ SyncRegion(i)
        \/ SyncExit(i)

SpecConc == InitConc /\ [][NextConc]_vars

\* The event loop runs every task that can go on, and a worker that was given
\* an exit step runs it; nothing makes a blocking call on a worker finish.
SpecFair ==
    /\ InitConc
    /\ [][NextConc]_vars
    /\ \A i \in Tasks : WF_vars(ExAcquire(i)) /\ WF_vars(ExRun(i))

(***************************************************************************)
(* C11: the exit step of a blocking-generator resource is admitted by a    *)
(* limiter of its own, not by the default limiter of the worker pool: a    *)
(* pending exit step is eventually admitted and runs, also while every     *)
(* token of the default limiter is held by blocking calls that never       *)
(* finish.                                                                 *)
(***************************************************************************)
C11_ExitStepNotStarved ==
    \A i \in Tasks : (pc[i] = "ex_wait") ~> (Count(log[i], "exit") = 1)

C11_Witness ==
    \E i \in Tasks :
        /\ Count(log[i], "exit") = 1
        /\ pc[i] = "ex_resume"
        /\ Cardinality(poolBusy \ {i}) = PoolCap
        /\ \A j \in poolBusy : job[j] = "call" /\ pc[j] = "tp_run"

(***************************************************************************)
(* C12: under any interleaving of concurrent invocations the operations    *)
(* running on workers at the same time stay within a fixed capacity that   *)
(* does not grow with the number of open resources: the calls and acquire  *)
(* steps within the capacity of the one default limiter, the exit steps    *)
(* within the capacity of one exit-step limiter shared by all invocations. *)
(***************************************************************************)
C12_WorkersBounded ==
    /\ Cardinality(poolBusy) <= PoolCap
    /\ Cardinality({i \in Tasks : pc[i] = "ex_run"}) <= ExitCap

\* Step ev is in log lg before position k.
Before(lg, ev, k) == \E j \in DOMAIN lg : j < k /\ lg[j][1] = ev

(***************************************************************************)
(* C19: within one invocation of a resource, whatever the other            *)
(* invocations do, the protected region starts only after the acquire step *)
(* has completed, and the release step starts only after the protected     *)
(* region has ended.                                                       *)
(***************************************************************************)
C19_AcquireRegionRelease ==
    \A i \in Tasks :
        \A k \in DOMAIN log[i] :
            /\ log[i][k][1] = "yield" => Before(log[i], "enter", k)
            /\ log[i][k][1] = "region" => Before(log[i], "yield", k)
            /\ log[i][k][1] = "exit" => Before(log[i], "region", k)

(***************************************************************************)
(* Deferred Type Resolver                                                  *)
(***************************************************************************)
\* Longest call stack of a caller of get_evaluated_signature.
MaxFrames == 2
\* How many times the same callable is resolved from the same call site.
MaxCalls == 2

\* Identifiers the callers bind and annotations name: one that no function of
\* this module has as a local variable, and one that get_evaluated_signature has.
Names == {"X", "call"}

\* The types the callers bind them to.
NameVals == [X |-> {"int", "str"}, call |-> {"int"}]

\* The dictionaries over some of the names.
Bindings ==
    UNION {{m \in [S -> {"int", "str"}] : \A n \in S : m[n] \in NameVals[n]} :
              S \in SUBSET Names}

\* A frame of a caller: fd tells whether 'fast_depends' occurs in the file
\* name of its code, locals is its f_locals.
Frames == [fd : BOOLEAN, locals : Bindings]

Stacks == UNION {[1 .. n -> Frames] : n \in 1 .. MaxFrames}

\* __globals__ of the callable: it binds X to a type of its own, or not.
GlobalBindings == {[n \in S |-> "bytes"] : S \in SUBSET {"X"}}

\* The frame of get_evaluated_signature when it calls
\* collect_outer_stack_locals: its locals are call and signature; the file is
\* pydantic_ai/_depends/utils.py.
FrameOfGetEvaluatedSignature ==
    [fd |-> FALSE, locals |-> [call |-> "callable", signature |-> "Signature"]]

\* The frame of collect_outer_stack_locals when its second loop reads its
\* f_locals: frame, frames, locals and f are bound.
FrameOfCollectOuterStackLocals ==
    [fd |-> FALSE,
     locals |-> [frame |-> "None", frames |-> "list", locals |-> "dict", f |-> "frame"]]

\* The call stack inside collect_outer_stack_locals, outermost first.
LiveStack(callers) ==
    callers \o <<FrameOfGetEvaluatedSignature, FrameOfCollectOuterStackLocals>>

\* s[::-1]
Reversed(s) == [k \in 1 .. Len(s) |-> s[Len(s) + 1 - k]]

\* 'fast_depends' not in frame.f_code.co_filename
Kept(fr) == ~ fr.fd

\* The list `frames` after the first loop: from inspect.currentframe() along
\* f_back, the frames that pass the test.
CollectedFrames(stack) == SelectSeq(Reversed(stack), Kept)

\* d.update(e)
Updated(d, e) ==
    [n \in DOMAIN d \cup DOMAIN e |-> IF n \in DOMAIN e THEN e[n] ELSE d[n]]

RECURSIVE UpdateEach(_, _)
\* for f in fs: locals.update(f.f_locals)
UpdateEach(d, fs) ==
    IF fs = <<>> THEN d ELSE UpdateEach(Updated(d, Head(fs).locals), Tail(fs))

collect_outer_stack_locals_noreverse(stack) ==
    UpdateEach(<<>>, CollectedFrames(stack))

\* collect_outer_stack_locals(), called on the live stack.
collect_outer_stack_locals(stack) ==
    UpdateEach(<<>>, Reversed(CollectedFrames(stack)))

\* An annotation object that is not an Annotated form: a type, a string, a
\* ForwardRef, inspect.Parameter.empty, or some other object.
Plain(form, val) ==
    [form |-> form, val |-> val, bform |-> "-", bval |-> "-", mform |-> "-", mval |-> "-"]

TypeAnn(t) == Plain("type", t)
StrAnn(n) == Plain("str", n)
ForwardRefAnn(n) == Plain("fref", n)
EmptyAnn == Plain("empty", "-")
ObjectAnn == Plain("obj", "m")

\* Annotated[b, m]: __origin__ is b and __metadata__ is (m,).
AnnotatedAnn(b, m) ==
    [form |-> "annotated", val |-> "-",
     bform |-> b.form, bval |-> b.val, mform |-> m.form, mval |-> m.val]

\* annotation.__origin__ and annotation.__metadata__[0]
OriginOf(a) == Plain(a.bform, a.bval)
MetadataOf(a) == Plain(a.mform, a.mval)

\* The annotations a parameter or the return slot is declared with.
DeclaredAnnotations ==
    {TypeAnn("int"), StrAnn("X"), StrAnn("call"),
     AnnotatedAnn(ForwardRefAnn("X"), ObjectAnn),
     AnnotatedAnn(TypeAnn("int"), StrAnn("X"))}

\* The parameters of the callable as inspect.signature gives them, in order.
Params ==
    <<[name |-> "a", kind |-> "POSITIONAL_OR_KEYWORD", default |-> "empty"],
      [name |-> "b", kind |-> "KEYWORD_ONLY", default |-> "1"]>>

Slots == {"a", "b", "return"}

\* eval_type(ForwardRef(n), globalns, locals, lenient=True): the name is
\* looked up in locals, then in globalns; a name bound in neither leaves the
\* ForwardRef as it is.
eval_type(n, g, l) ==
    IF n \in DOMAIN l THEN TypeAnn(l[n])
    ELSE IF n \in DOMAIN g THEN TypeAnn(g[n])
    ELSE ForwardRefAnn(n)

\* get_typed_annotation on an annotation that is not an Annotated form.
get_typed_plain(a, g, l) ==
    LET r == IF a.form = "str" THEN ForwardRefAnn(a.val) ELSE a
    IN  IF r.form = "fref" THEN eval_type(r.val, g, l) ELSE r

\* get_typed_annotation(annotation, globalns, locals): what it returns.  For
\* an Annotated form that is the annotation object itself, with the resolved
\* base and metadata assigned to it.
get_typed_annotation(a, g, l) ==
    IF a.form = "annotated"
    THEN AnnotatedAnn(get_typed_plain(OriginOf(a), g, l),
                      get_typed_plain(MetadataOf(a), g, l))
    ELSE get_typed_plain(a, g, l)

\* The annotation object a after get_typed_annotation(a, globalns, locals):
\* `annotation.__origin__, annotation.__metadata__ = ...` assigns to the
\* object the callable declares; strings and types are left as they are.
AfterResolution(a, g, l) ==
    IF a.form = "annotated" THEN get_typed_annotation(a, g, l) ELSE a

InitSig ==
    /\ InvocationsIdle(Inv)
    /\ args = [i \in Inv |-> <<>>]
    /\ kwargs = [i \in Inv |-> {}]
    /\ rpc = "ready"
    /\ frames \in Stacks
    /\ globalns \in GlobalBindings
    /\ declared \in {d \in [Slots -> DeclaredAnnotations \cup {EmptyAnn}] :
                        /\ d["b"] = EmptyAnn
                        /\ d["a"] # EmptyAnn
                        /\ d["return"] # EmptyAnn}
    /\ annots = declared
    /\ slocals = <<>>
    /\ rsigs = <<>>

invocationVars ==
    <<pc, api, call, path, gen, thrown, regionOut, wres, result, scopeRes, log, job,
      poolBusy, exitLim, cancelled, requestVars, got>>

\* get_evaluated_signature up to `locals = collect_outer_stack_locals()`.
CollectOuterStackLocals ==
    /\ rpc = "ready"
    /\ Len(rsigs) < MaxCalls
    /\ slocals' = collect_outer_stack_locals(LiveStack(frames))
    /\ rpc' = "collected"
    /\ UNCHANGED <<invocationVars, frames, globalns, declared, annots, rsigs>>

\* The rest of get_evaluated_signature: every parameter is built anew with
\* the name, kind and default of the signature and the resolved annotation,
\* and so is the return annotation.
ResolveAnnotations ==
    /\ rpc = "collected"
    /\ rsigs' = Append(rsigs,
          [params |-> [k \in DOMAIN Params |->
                          [name |-> Params[k].name,
                           kind |-> Params[k].kind,
                           default |-> Params[k].default,
                           annotation |->
                               get_typed_annotation(annots[Params[k].name],
                                                    globalns, slocals)]],
           ret |-> get_typed_annotation(annots["return"], globalns, slocals)])
    /\ annots' = [sl \in Slots |-> AfterResolution(annots[sl], globalns, slocals)]
    /\ rpc' = "ready"
    /\ UNCHANGED <<invocationVars, frames, globalns, declared, slocals>>

NextSig ==
    \/ CollectOuterStackLocals
    \/ ResolveAnnotations

SpecSig == InitSig /\ [][NextSig]_vars

\* collect_outer_stack_locals has returned its binding set.
Collected == rpc = "collected" \/ rsigs # <<>>

\* The frames of the live stack that collect_outer_stack_locals keeps,
\* outermost first.
KeptFrames == SelectSeq(LiveStack(frames), Kept)

\* The innermost of the kept frames that binds n.
InnermostBinding(n) ==
    LET K == {k \in DOMAIN KeptFrames : n \in DOMAIN KeptFrames[k].locals}
    IN  CHOOSE k \in K : \A j \in K : j <= k

\* The frame that calls get_evaluated_signature.
CallSite == frames[Len(frames)]

\* The annotations of result r, by slot.
ResultAnnotation(r, sl) ==
    IF sl = "return" THEN r.ret
    ELSE LET k == CHOOSE j \in DOMAIN r.params : r.params[j].name = sl
         IN  r.params[k].annotation

(***************************************************************************)
(* C15: the binding set that collect_outer_stack_locals builds during      *)
(* get_evaluated_signature has no binding from the frames of               *)
(* collect_outer_stack_locals and get_evaluated_signature themselves: each *)
(* of its bindings is a binding of a caller's frame, and a string          *)
(* annotation is resolved to a type a caller or the callable's globals     *)
(* bind its name to, or stays a forward reference.                         *)
(***************************************************************************)
C15_NoCoreBindings ==
    Collected =>
        /\ \A n \in DOMAIN slocals :
              \E k \in DOMAIN frames :
                  /\ n \in DOMAIN frames[k].locals
                  /\ frames[k].locals[n] = slocals[n]
        /\ \A j \in DOMAIN rsigs : \A sl \in Slots :
              declared[sl].form = "str" =>
                  LET n == declared[sl].val
                  IN  ResultAnnotation(rsigs[j], sl) \in
                          {TypeAnn(frames[k].locals[n]) :
                              k \in {h \in DOMAIN frames : n \in DOMAIN frames[h].locals}}
                          \cup {TypeAnn(globalns[m]) : m \in DOMAIN globalns \cap {n}}
                          \cup {ForwardRefAnn(n)}

(***************************************************************************)
(* C16: the binding set collect_outer_stack_locals returns binds every     *)
(* identifier that a collected frame binds, and binds it to its value in   *)
(* the innermost collected frame that binds it.                            *)
(***************************************************************************)
C16_InnermostWins ==
    Collected =>
        /\ DOMAIN slocals = UNION {DOMAIN KeptFrames[k].locals : k \in DOMAIN KeptFrames}
        /\ \A n \in DOMAIN slocals :
              slocals[n] = KeptFrames[InnermostBinding(n)].locals[n]

C16_Witness ==
    /\ rpc = "collected"
    /\ \E k1, k2 \in DOMAIN frames :
          /\ k1 < k2
          /\ Kept(frames[k1]) /\ Kept(frames[k2])
          /\ "X" \in DOMAIN frames[k1].locals
          /\ "X" \in DOMAIN frames[k2].locals
          /\ frames[k1].locals["X"] # frames[k2].locals["X"]
          /\ slocals["X"] = frames[k2].locals["X"]

(***************************************************************************)
(* C17: for a name bound only in the scope of the call site (not in the    *)
(* callable's globals), get_evaluated_signature resolves a string          *)
(* annotation naming it to the same type as it gives for the direct        *)
(* annotation with the object the call site binds, for a parameter and for *)
(* the return slot.                                                        *)
(***************************************************************************)
C17_DeferredEqualsDirect ==
    \A j \in DOMAIN rsigs : \A sl \in Slots :
        (/\ declared[sl].form = "str"
         /\ declared[sl].val \in DOMAIN CallSite.locals
         /\ declared[sl].val \notin DOMAIN globalns) =>
            ResultAnnotation(rsigs[j], sl) =
                get_typed_annotation(TypeAnn(CallSite.locals[declared[sl].val]),
                                     globalns, slocals)

(***************************************************************************)
(* C20: get_evaluated_signature changes nothing but its result: the        *)
(* annotation objects the callable declares, Annotated forms with their    *)
(* base and metadata included, are after the call what they were before;   *)
(* names, kinds, defaults and order of the parameters in the result are    *)
(* those of the signature; resolving twice from the same call site gives   *)
(* equal results.                                                          *)
(***************************************************************************)
C20_OnlyTheResultChanges ==
    /\ annots = declared
    /\ \A j \in DOMAIN rsigs :
          /\ DOMAIN rsigs[j].params = DOMAIN Params
          /\ \A k \in DOMAIN Params :
                /\ rsigs[j].params[k].name = Params[k].name
                /\ rsigs[j].params[k].kind = Params[k].kind
                /\ rsigs[j].params[k].default = Params[k].default
    /\ \A j1, j2 \in DOMAIN rsigs : rsigs[j1] = rsigs[j2]

====
